---- MODULE Spec2Model ----
(***************************************************************************)
(* Array wire-format translation layer of seldon_microservice:             *)
(*   common.py              request validator, REST and protobuf codecs    *)
(*   tester_flatbuffers.py  flatbuffers request builder / response reader  *)
(* and start-up of the service:                                            *)
(*   microservice.py        main: argument parsing, module and server      *)
(*                          selection, startServers                        *)
(***************************************************************************)
EXTENDS Integers, Sequences, FiniteSets, TLC

VARIABLES
    req,        \* argument of sanity_check_request
    verdict,    \* what the call did: not yet called, returned, or raised
    pc,         \* codec call sequence: "encode", "decode", "done" ("idle": none)
    proto,      \* which codec: "REST", "GRPC" or "FBS"
    arr,        \* in-memory numpy array handed to fromArray
    names,      \* names handed to fromArray
    orig,       \* REST: original_datadef; protobuf: data_type
    wire,       \* the payload: produced by fromArray, or received
    out,        \* outcome of toArray
    heap,       \* objects allocated by running calls: Builders and ListValues
    th,         \* per thread: the call it runs and that call's local variables
    argv,       \* command line handed to main
    user_class, \* the user's interface class, as far as main looks at it
    mainpc,     \* position of main ("idle": main is not run)
    args,       \* main's args, the parsed command line
    user_object,            \* main's user_object
    seldon_microservice,    \* main's seldon_microservice: the module bound
    server1_func,           \* main's server1_func
    server2_func,           \* main's server2_func
    p1,         \* startServers' process p1, running target1
    p2          \* startServers' process p2, running target2

valVars == <<req, verdict>>
codecVars == <<pc, proto, arr, names, orig, wire, out>>
fbsVars == <<heap, th>>
mainVars == <<argv, user_class, mainpc, args, user_object, seldon_microservice,
              server1_func, server2_func, p1, p2>>
vars == <<req, verdict, pc, proto, arr, names, orig, wire, out, heap, th,
          argv, user_class, mainpc, args, user_object, seldon_microservice,
          server1_func, server2_func, p1, p2>>

(***************************************************************************)
(* Python values as they come out of json.loads: a type tag and, for a     *)
(* dict, its items (a function from the keys present to values).           *)
(***************************************************************************)
NoItems == [k \in {} |-> 0]

PyNone == [type |-> "NoneType", items |-> NoItems]
PyStr == [type |-> "str", items |-> NoItems]
PyInt == [type |-> "int", items |-> NoItems]
PyList == [type |-> "list", items |-> NoItems]
PyDict(f) == [type |-> "dict", items |-> f]

\* dict.get(key): the value stored under key, None when the key is absent
DictGet(d, key) == IF key \in DOMAIN d.items THEN d.items[key] ELSE PyNone

\* Every dict whose keys are among keys and whose values are among vals
DictsOver(keys, vals) == UNION {[S -> vals] : S \in SUBSET keys}

\* ------------------------------------------------------------------------
\* Outcome of a call: it returned, or it raised an exception
\* ------------------------------------------------------------------------
NotCalled == [state |-> "not called", msg |-> ""]
Returned == [state |-> "returned", msg |-> ""]
Raised(m) == [state |-> "raised", msg |-> m]

MsgNotDict == "Request must be a dictionary"
MsgNoData == "Request must contain Default Data"
MsgDataNotDict == "Data must be a dictionary"
MsgNoVariant == "Data dictionary has no 'ndarray' or 'tensor' keyword."

\* sanity_check_request with the 'data is None' test dropped
sanity_check_request_no_none_test(r) ==
    IF r.type # "dict" THEN Raised(MsgNotDict)
    ELSE LET data == DictGet(r, "data") IN
         IF data.type # "dict" THEN Raised(MsgDataNotDict)
         ELSE IF DictGet(data, "ndarray") = PyNone /\ DictGet(data, "tensor") = PyNone
              THEN Raised(MsgNoVariant)
              ELSE Returned

sanity_check_request(r) ==
    IF r.type # "dict" THEN Raised(MsgNotDict)
    ELSE LET data == DictGet(r, "data") IN
         IF data = PyNone THEN Raised(MsgNoData)
         ELSE IF data.type # "dict" THEN Raised(MsgDataNotDict)
         ELSE IF DictGet(data, "ndarray") = PyNone /\ DictGet(data, "tensor") = PyNone
              THEN Raised(MsgNoVariant)
              ELSE Returned

(***************************************************************************)
(* numpy arrays: a shape and the elements in row-major (C) order.          *)
(* Element values stand for float64 numbers; no codec computes with them.  *)
(***************************************************************************)
MaxRank == 3        \* arrays of rank 0 .. MaxRank
MaxDim == 2         \* axis lengths 0 .. MaxDim
MaxElems == 4       \* at most MaxElems elements
MaxVal == 2         \* element values 1 .. MaxVal
MaxNames == 2       \* at most MaxNames names

RECURSIVE Prod(_)
Prod(s) == IF Len(s) = 0 THEN 1 ELSE Head(s) * Prod(Tail(s))

SeqsUpTo(S, n) == UNION {[1..k -> S] : k \in 0..n}

NdArray(shape, values) == [shape |-> shape, values |-> values]

Shapes == {s \in SeqsUpTo(0..MaxDim, MaxRank) : Prod(s) <= MaxElems}

Arrays == UNION {{NdArray(s, v) : v \in [1..Prod(s) -> 1..MaxVal]} : s \in Shapes}

\* Python nested values: a number, or a list of nested values
Num(x) == [kind |-> "num", v |-> x, items |-> <<>>]
List(xs) == [kind |-> "list", v |-> 0, items |-> xs]
None == [kind |-> "None", v |-> 0, items |-> <<>>]

\* a[i], 0-based, for an array of rank >= 1: the i-th sub-array along axis 0
SubArray(a, i) ==
    LET inner == Tail(a.shape)
        n == Prod(inner)
    IN NdArray(inner, [j \in 1..n |-> a.values[i * n + j]])

\* ndarray.tolist(): a Python scalar for rank 0, else the list of the sub-arrays' lists
RECURSIVE tolist(_)
tolist(a) ==
    IF Len(a.shape) = 0 THEN Num(a.values[1])
    ELSE List([i \in 1..a.shape[1] |-> tolist(SubArray(a, i - 1))])

\* ndarray.ravel().tolist() / ndarray.flatten(): the elements in row-major order
ravel(a) == a.values

\* Concatenation of a sequence of sequences
RECURSIVE Concat(_)
Concat(ss) == IF Len(ss) = 0 THEN <<>> ELSE Head(ss) \o Concat(Tail(ss))

\* np.array(nested) of a rectangular nested list: per-level lengths, flat elements
RECURSIVE NestShape(_)
NestShape(n) ==
    IF n.kind = "num" THEN <<>>
    ELSE IF Len(n.items) = 0 THEN <<0>>
    ELSE <<Len(n.items)>> \o NestShape(n.items[1])

RECURSIVE NestValues(_)
NestValues(n) ==
    IF n.kind = "num" THEN <<n.v>>
    ELSE Concat([i \in 1..Len(n.items) |-> NestValues(n.items[i])])

np_array(n) == NdArray(NestShape(n), NestValues(n))

\* Outcome of a codec call
Ok(v) == [state |-> "returned", msg |-> "", val |-> v]
Err(m) == [state |-> "raised", msg |-> m, val |-> <<>>]

Negatives(shape) == {i \in 1..Len(shape) : shape[i] < 0}
KnownProd(shape) == Prod([i \in 1..Len(shape) |-> IF shape[i] < 0 THEN 1 ELSE shape[i]])

\* np.array(values).reshape(shape) of a flat list of values: the sizes must
\* agree; one negative entry of shape is an unknown dimension numpy infers.
reshape(values, shape) ==
    LET n == Len(values)
        neg == Negatives(shape)
        known == KnownProd(shape)
    IN IF Cardinality(neg) > 1 THEN Err("ValueError")
       ELSE IF Cardinality(neg) = 1
            THEN IF known = 0 \/ n % known # 0 THEN Err("ValueError")
                 ELSE Ok(NdArray([i \in 1..Len(shape) |->
                                    IF shape[i] < 0 THEN n \div known ELSE shape[i]],
                                 values))
            ELSE IF known # n THEN Err("ValueError")
                 ELSE Ok(NdArray(shape, values))

(***************************************************************************)
(* REST codec. A datadef is a dict: a function from the keys present.      *)
(***************************************************************************)
\* datadef.get(key), for the keys whose value is a nested value or a dict
Get(d, key) == IF key \in DOMAIN d THEN d[key] ELSE None

\* rest_datadef_to_array that looks for 'ndarray' before 'tensor'
rest_datadef_to_array_ndarray_first(datadef) ==
    IF Get(datadef, "ndarray") # None
    THEN Ok(np_array(datadef["ndarray"]))
    ELSE IF Get(datadef, "tensor") # None
         THEN reshape(datadef["tensor"].values, datadef["tensor"].shape)
         ELSE Ok(NdArray(<<0>>, <<>>))

rest_datadef_to_array(datadef) ==
    IF Get(datadef, "tensor") # None
    THEN reshape(datadef["tensor"].values, datadef["tensor"].shape)
    ELSE IF Get(datadef, "ndarray") # None
         THEN Ok(np_array(datadef["ndarray"]))
         ELSE Ok(NdArray(<<0>>, <<>>))

\* Reverse of a sequence
Reverse(q) == [i \in 1..Len(q) |-> q[Len(q) + 1 - i]]

\* the tensor form with the axes written in reverse order
RestTensor_reversed_shape(array) ==
    [kind |-> "tensor", shape |-> Reverse(array.shape), values |-> ravel(array)]

RestTensor(array) == [kind |-> "tensor", shape |-> array.shape, values |-> ravel(array)]

\* array_to_rest_datadef that emits the tensor form whatever the original was
array_to_rest_datadef_always_tensor(array, nms, original_datadef) ==
    [names |-> nms, tensor |-> RestTensor(array)]

array_to_rest_datadef(array, nms, original_datadef) ==
    IF Get(original_datadef, "tensor") # None
    THEN [names |-> nms, tensor |-> RestTensor(array)]
    ELSE IF Get(original_datadef, "ndarray") # None
         THEN [names |-> nms, ndarray |-> tolist(array)]
         ELSE [names |-> nms, ndarray |-> tolist(array)]

(***************************************************************************)
(* Protobuf codec. A DefaultData message: names, and the data_oneof with   *)
(* its two members, of which at most one is set (which: WhichOneof).       *)
(***************************************************************************)
EmptyTensor == [shape |-> <<>>, values |-> <<>>]
EmptyListValue == List(<<>>)

DefaultDataTensor(nms, t) ==
    [names |-> nms, which |-> "tensor", tensor |-> t, ndarray |-> EmptyListValue]
DefaultDataNdarray(nms, lv) ==
    [names |-> nms, which |-> "ndarray", tensor |-> EmptyTensor, ndarray |-> lv]
DefaultDataUnset(nms) ==
    [names |-> nms, which |-> "None", tensor |-> EmptyTensor, ndarray |-> EmptyListValue]

\* array_to_list_value that extends lv with the flat elements at every rank
array_to_list_value_flat(array) ==
    Ok(List([i \in 1..Len(array.values) |-> Num(array.values[i])]))

\* array_to_list_value(array, lv): a rank-1 array extends lv with its
\* elements; any other array is iterated along axis 0 (a TypeError for a
\* 0-d array) and each sub-array fills a list added to lv.
RECURSIVE array_to_list_value(_)
array_to_list_value(array) ==
    IF Len(array.shape) = 1
    THEN Ok(List([i \in 1..Len(array.values) |-> Num(array.values[i])]))
    ELSE IF Len(array.shape) = 0 THEN Err("TypeError")
    ELSE LET subs == [i \in 1..array.shape[1] |->
                         array_to_list_value(SubArray(array, i - 1))]
         IN IF \E i \in 1..Len(subs) : subs[i].state = "raised"
            THEN Err("TypeError")
            ELSE Ok(List([i \in 1..Len(subs) |-> subs[i].val]))

grpc_datadef_to_array(datadef) ==
    IF datadef.which = "tensor"
    THEN reshape(datadef.tensor.values, datadef.tensor.shape)
    ELSE IF datadef.which = "ndarray"
         THEN Ok(np_array(datadef.ndarray))
         ELSE Ok(NdArray(<<0>>, <<>>))

array_to_grpc_datadef(array, nms, data_type) ==
    IF data_type = "tensor"
    THEN Ok(DefaultDataTensor(nms, [shape |-> array.shape, values |-> ravel(array)]))
    ELSE IF data_type = "ndarray"
         THEN LET lv == array_to_list_value(array)
              IN IF lv.state = "raised" THEN lv ELSE Ok(DefaultDataNdarray(nms, lv.val))
         ELSE LET lv == array_to_list_value(array)
              IN IF lv.state = "raised" THEN lv ELSE Ok(DefaultDataNdarray(nms, lv.val))

(***************************************************************************)
(* flatbuffers. A Builder holds the objects written so far (an offset is   *)
(* an object's position in objs) and the vector under construction, whose  *)
(* elements are kept lowest address first: the buffer grows downward, so   *)
(* a prepended element lands in front of those written before it.          *)
(***************************************************************************)
NewBuilder ==
    [kind |-> "Builder", objs |-> <<>>, vec |-> <<>>, root |-> 0, sizePrefixed |-> FALSE]

CreateString(b, s) == [b EXCEPT !.objs = Append(@, [kind |-> "string", s |-> s])]
StartVector(b) == [b EXCEPT !.vec = <<>>]
Prepend(b, x) == [b EXCEPT !.vec = <<x>> \o @]
EndVector(b, n) ==
    [b EXCEPT !.objs = Append(@, [kind |-> "vector", len |-> n, elems |-> b.vec]),
              !.vec = <<>>]
EndTable(b, tbl) == [b EXCEPT !.objs = Append(@, tbl)]
\* offset of the object the last CreateString / EndVector / EndTable wrote
LastOffset(b) == Len(b.objs)
FinishSizePrefixed(b, root) == [b EXCEPT !.root = root, !.sizePrefixed = TRUE]
Output(b) == [objs |-> b.objs, root |-> b.root, sizePrefixed |-> b.sizePrefixed]

\* range(n) in increasing order
forward_range(n) == [k \in 1..n |-> k - 1]

\* reversed(range(n)): the indices n-1, ..., 0 in the order the loops visit them
reversed_range(n) == [k \in 1..n |-> n - k]

TensorTable(sOffset, vOffset) ==
    [kind |-> "Tensor", shape |-> sOffset, values |-> vOffset]
DefaultDataTable(tensor, namesOffset) ==
    [kind |-> "DefaultData", tensor |-> tensor, names |-> namesOffset]
StatusTable(code, status) ==
    [kind |-> "Status", code |-> code, status |-> status]
SeldonMessageTable(protocol, status, dataType, data) ==
    [kind |-> "SeldonMessage", protocol |-> protocol, status |-> status,
     dataType |-> dataType, data |-> data]
SeldonRPCTable(method, messageType, message) ==
    [kind |-> "SeldonRPC", method |-> method, messageType |-> messageType,
     message |-> message]

\* Reading a finished buffer: offset 0 is an absent field
VectorLength(buf, off) == IF off = 0 THEN 0 ELSE buf.objs[off].len
VectorElem(buf, off, i) == buf.objs[off].elems[i + 1]

MsgBadProtocol == "Message does not have correct protocol"
MsgNotDefaultData == "Message is not of type DefaultData"

\* DecodeSeldonMessage with the data type tested before the protocol
DecodeSeldonMessage_datatype_first(data, seldon_msg) ==
    IF seldon_msg.dataType # "DefaultData" THEN Err(MsgNotDefaultData)
    ELSE IF seldon_msg.protocol # "V1" THEN Err(MsgBadProtocol)
    ELSE Err("AttributeError")

\* The body of SeldonRPCToNumpyArray once seldon_msg is a SeldonMessage table
DecodeSeldonMessage(data, seldon_msg) ==
    IF seldon_msg.protocol = "V1"
    THEN IF seldon_msg.dataType = "DefaultData"
         THEN IF seldon_msg.data = 0 THEN Err("AttributeError")
              ELSE LET defData == data.objs[seldon_msg.data]
                       nms == [i \in 1..VectorLength(data, defData.names) |->
                                  data.objs[VectorElem(data, defData.names, i - 1)].s]
                   IN IF defData.tensor = 0 THEN Err("AttributeError")
                      ELSE LET tensor == data.objs[defData.tensor]
                               shape == [i \in 1..VectorLength(data, tensor.shape) |->
                                            VectorElem(data, tensor.shape, i - 1)]
                               values == [i \in 1..VectorLength(data, tensor.values) |->
                                             VectorElem(data, tensor.values, i - 1)]
                               r == reshape(values, shape)
                           IN IF r.state = "raised" THEN r
                              ELSE Ok([array |-> r.val, names |-> nms])
         ELSE Err(MsgNotDefaultData)
    ELSE Err(MsgBadProtocol)

\* GetRootAsSeldonMessage(data, 0) takes the first word of data as the offset
\* of a SeldonMessage table. That is what it is only in a buffer finished
\* without size prefix whose root is a SeldonMessage.
RootIsSeldonMessage(data) ==
    /\ ~data.sizePrefixed
    /\ data.root # 0
    /\ data.objs[data.root].kind = "SeldonMessage"

\* In any other buffer the first word is something else (the size prefix of
\* a size-prefixed buffer, the root offset of another table) and the fields
\* are read from whatever bytes it leads to: an out-of-range read, or field
\* values that are not those written.
MisreadOutcomes == {Err("struct.error"), Err(MsgBadProtocol), Err(MsgNotDefaultData)}

\* SeldonRPCToNumpyArray(data): the outcomes the call can have
SeldonRPCToNumpyArray(data) ==
    IF RootIsSeldonMessage(data)
    THEN {DecodeSeldonMessage(data, data.objs[data.root])}
    ELSE MisreadOutcomes

\* ------------------------------------------------------------------------
\* Requests handed to the validator
\* ------------------------------------------------------------------------
LeafValues == {PyNone, PyStr, PyInt, PyList, PyDict(NoItems)}

DataDicts == {PyDict(f) : f \in DictsOver({"ndarray", "tensor", "foo"}, LeafValues)}

Requests ==
    {PyStr, PyInt, PyList, PyNone}
    \cup {PyDict(f) : f \in DictsOver({"data"}, LeafValues \cup DataDicts)}
    \cup {PyDict(f) : f \in DictsOver({"notdata"}, LeafValues)}
    \cup {PyDict([data |-> d, notdata |-> PyDict(NoItems)]) : d \in DataDicts}

\* Local names of main before their assignment, processes before their start
Unbound == "unbound"
NoArgs == [service_type |-> Unbound, api_type |-> Unbound, persistence |-> 0]
NoUserObject == [restored |-> FALSE, custom_service |-> FALSE]
NotStarted == "not started"

MainIdle ==
    /\ argv = <<>>
    /\ user_class = <<>>
    /\ mainpc = "idle"
    /\ args = NoArgs
    /\ user_object = NoUserObject
    /\ seldon_microservice = Unbound
    /\ server1_func = Unbound
    /\ server2_func = Unbound
    /\ p1 = NotStarted
    /\ p2 = NotStarted

CodecIdle ==
    /\ pc = "idle"
    /\ proto = "none"
    /\ arr = <<>>
    /\ names = <<>>
    /\ orig = <<>>
    /\ wire = <<>>
    /\ out = NotCalled

FbsIdle ==
    /\ heap = <<>>
    /\ th = <<>>

InitValidate ==
    /\ req \in Requests
    /\ verdict = NotCalled
    /\ CodecIdle
    /\ FbsIdle
    /\ MainIdle

Validate ==
    /\ verdict = NotCalled
    /\ verdict' = sanity_check_request(req)
    /\ UNCHANGED <<req, codecVars, fbsVars, mainVars>>

NextValidate == Validate

SpecValidate == InitValidate /\ [][NextValidate]_vars

\* ------------------------------------------------------------------------
\* Codec calls: fromArray followed by toArray of what it produced, or toArray
\* of a received payload
\* ------------------------------------------------------------------------
Iota(n) == [i \in 1..n |-> i]

NameSeqs == SeqsUpTo({"a", "b"}, MaxNames)

\* Received tensors: any int shape (numpy takes -1 as an unknown dimension),
\* any number of values
WireShapes == SeqsUpTo(-1..MaxDim, MaxRank)
WireTensors == {[shape |-> sh, values |-> Iota(n)] : sh \in WireShapes, n \in 0..MaxElems}

SampleTensor == [kind |-> "tensor", shape |-> <<1>>, values |-> <<1>>]
SampleNdarray == List(<<Num(1)>>)

\* original_datadef of array_to_rest_datadef
RestOriginals ==
    { [names |-> <<>>],
      [names |-> <<>>, tensor |-> SampleTensor],
      [names |-> <<>>, ndarray |-> SampleNdarray],
      [names |-> <<>>, tensor |-> None, ndarray |-> SampleNdarray],
      [names |-> <<>>, tensor |-> None, ndarray |-> None],
      [names |-> <<>>, tensor |-> SampleTensor, ndarray |-> None],
      [names |-> <<>>, tensor |-> SampleTensor, ndarray |-> SampleNdarray] }

\* data_type of array_to_grpc_datadef: WhichOneof("data_oneof")
GrpcDataTypes == {"tensor", "ndarray", "None"}

\* 'ndarray' members of received payloads that carry both variants
BothNdarrays == {SampleNdarray, List(<<List(<<Num(2), Num(2)>>)>>)}

RestPayloads ==
    {[names |-> <<>>, tensor |-> [kind |-> "tensor", shape |-> t.shape, values |-> t.values]] :
        t \in WireTensors}
    \cup {[names |-> <<>>,
           tensor |-> [kind |-> "tensor", shape |-> t.shape, values |-> t.values],
           ndarray |-> n] : t \in WireTensors, n \in BothNdarrays}
    \cup {[names |-> <<>>, ndarray |-> tolist(a)] : a \in Arrays}
    \cup {[names |-> <<>>], [names |-> <<>>, tensor |-> None, ndarray |-> None]}

GrpcPayloads ==
    {DefaultDataTensor(<<>>, t) : t \in WireTensors}
    \cup {DefaultDataNdarray(<<>>, tolist(a)) : a \in {x \in Arrays : Len(x.shape) > 0}}
    \cup {DefaultDataUnset(<<>>)}

\* A SeldonMessage buffer as a server writes it: not size-prefixed, the
\* message as root. hasData / hasTensor / hasNames: whether the field is set.
ResponseBuffer(protocol, dataType, hasData, hasTensor, hasNames, nms, t) ==
    LET k == Len(nms)
        b0 == [i \in 1..k |-> [kind |-> "string", s |-> nms[i]]]
    IN [objs |-> b0 \o
                 << [kind |-> "vector", len |-> k, elems |-> Iota(k)],
                    [kind |-> "vector", len |-> Len(t.shape), elems |-> t.shape],
                    [kind |-> "vector", len |-> Len(t.values), elems |-> t.values],
                    TensorTable(k + 2, k + 3),
                    DefaultDataTable(IF hasTensor THEN k + 4 ELSE 0,
                                     IF hasNames THEN k + 1 ELSE 0),
                    StatusTable(200, "SUCCESS"),
                    SeldonMessageTable(protocol, k + 6, dataType,
                                       IF hasData THEN k + 5 ELSE 0) >>,
        root |-> k + 7,
        sizePrefixed |-> FALSE]

FbsPayloads ==
    {ResponseBuffer(p, d, TRUE, TRUE, Len(n) > 0, n, t) :
        p \in {"V1", "V2"}, d \in {"DefaultData", "NONE"},
        n \in {<<>>, <<"a">>, <<"b", "a">>}, t \in WireTensors}
    \cup {ResponseBuffer(p, d, hd, ht, FALSE, <<>>, [shape |-> <<1>>, values |-> <<1>>]) :
            p \in {"V1", "V2"}, d \in {"DefaultData", "NONE"},
            hd \in BOOLEAN, ht \in BOOLEAN}

InitCodec ==
    /\ req = PyNone
    /\ verdict = NotCalled
    /\ FbsIdle
    /\ MainIdle
    /\ out = NotCalled
    /\ \/ /\ pc = "encode"
          /\ proto \in {"REST", "GRPC"}
          /\ arr \in Arrays
          /\ names \in NameSeqs
          /\ orig \in IF proto = "REST" THEN RestOriginals ELSE GrpcDataTypes
          /\ wire = <<>>
       \/ /\ pc = "decode"
          /\ proto \in {"REST", "GRPC", "FBS"}
          /\ arr = <<>>
          /\ names = <<>>
          /\ orig = <<>>
          /\ wire \in CASE proto = "REST" -> RestPayloads
                        [] proto = "GRPC" -> GrpcPayloads
                        [] OTHER -> FbsPayloads

AfterDecode == IF pc = "reparse" THEN "roundtrip" ELSE "done"

RestFromArray ==
    /\ pc = "encode" /\ proto = "REST"
    /\ wire' = array_to_rest_datadef(arr, names, orig)
    /\ pc' = "reparse"
    /\ UNCHANGED <<proto, arr, names, orig, out, valVars, fbsVars, mainVars>>

RestToArray ==
    /\ pc \in {"reparse", "decode"} /\ proto = "REST"
    /\ out' = rest_datadef_to_array(wire)
    /\ pc' = AfterDecode
    /\ UNCHANGED <<proto, arr, names, orig, wire, valVars, fbsVars, mainVars>>

GrpcFromArray ==
    /\ pc = "encode" /\ proto = "GRPC"
    /\ LET r == array_to_grpc_datadef(arr, names, orig)
       IN IF r.state = "raised"
          THEN /\ out' = r
               /\ pc' = "failed"
               /\ UNCHANGED wire
          ELSE /\ wire' = r.val
               /\ pc' = "reparse"
               /\ UNCHANGED out
    /\ UNCHANGED <<proto, arr, names, orig, valVars, fbsVars, mainVars>>

GrpcToArray ==
    /\ pc \in {"reparse", "decode"} /\ proto = "GRPC"
    /\ out' = grpc_datadef_to_array(wire)
    /\ pc' = AfterDecode
    /\ UNCHANGED <<proto, arr, names, orig, wire, valVars, fbsVars, mainVars>>

FbsToArray ==
    /\ pc = "decode" /\ proto = "FBS"
    /\ out' \in SeldonRPCToNumpyArray(wire)
    /\ pc' = "done"
    /\ UNCHANGED <<proto, arr, names, orig, wire, valVars, fbsVars, mainVars>>

NextCodec ==
    \/ RestFromArray
    \/ RestToArray
    \/ GrpcFromArray
    \/ GrpcToArray
    \/ FbsToArray

SpecCodec == InitCodec /\ [][NextCodec]_vars

\* ------------------------------------------------------------------------
\* Running calls. Each thread runs one call, step by step; the objects the
\* calls allocate live in heap, and a call holds a reference (a position in
\* heap) to the object it allocated. pc names the source line a call is at.
\* ------------------------------------------------------------------------
NoResult == [state |-> "not called", msg |-> "", val |-> <<>>]

\* NumpyArrayToSeldonRPC(a, n) about to run
EncodeCall(a, n) ==
    [job |-> "encode", pc |-> "L11", arg |-> a, arr |-> a, names |-> n,
     ref |-> 0, k |-> 1, str_offsets |-> <<>>,
     namesOffsetBound |-> FALSE, namesOffset |-> 0,
     sOffset |-> 0, vOffset |-> 0, tensor |-> 0, defData |-> 0, status |-> 0,
     seldonMessage |-> 0, seldonRPC |-> 0, ret |-> NoResult, dec |-> NoResult]

\* array_to_list_value(a) about to run, lv left to its default
ListValueCall(a) ==
    [EncodeCall(a, <<>>) EXCEPT !.job = "listvalue", !.pc = "L57"]

\* an allocation that hands out the first object again
Alloc_shared(h) == 1

\* A new object's reference
Alloc(h) == Len(h) + 1

At(t, job, line) == t \in DOMAIN th /\ th[t].job = job /\ th[t].pc = line
Builder(t) == heap[th[t].ref]
SetBuilder(t, b) == heap' = [heap EXCEPT ![th[t].ref] = b]
Idle == UNCHANGED <<valVars, codecVars, mainVars>>

\* line 11: builder = flatbuffers.Builder(32768); line 12: if len(names) > 0
BuilderNew(t) ==
    /\ At(t, "encode", "L11")
    /\ heap' = Append(heap, NewBuilder)
    /\ th' = [th EXCEPT ![t].ref = Alloc(heap),
                        ![t].k = 1,
                        ![t].pc = IF Len(th[t].names) > 0 THEN "L15" ELSE "L20"]
    /\ Idle

\* lines 13-15: str_offsets.append(builder.CreateString(names[i]))
NamesCreateString(t) ==
    /\ At(t, "encode", "L15")
    /\ LET b == CreateString(Builder(t), th[t].names[th[t].k])
       IN /\ SetBuilder(t, b)
          /\ th' = [th EXCEPT ![t].str_offsets = Append(@, LastOffset(b)),
                              ![t].k = IF th[t].k = Len(th[t].names) THEN 1 ELSE @ + 1,
                              ![t].pc = IF th[t].k = Len(th[t].names) THEN "L16" ELSE @]
    /\ Idle

\* line 16: DefaultDataStartNamesVector(builder, len(str_offsets))
NamesStartVector(t) ==
    /\ At(t, "encode", "L16")
    /\ SetBuilder(t, StartVector(Builder(t)))
    /\ th' = [th EXCEPT ![t].k = 1, ![t].pc = "L18"]
    /\ Idle

\* The k-th pass of a loop 'for i in reversed(range(len(xs)))' that prepends xs[i]
PrependPass(t, xs, next) ==
    /\ SetBuilder(t, Prepend(Builder(t), xs[reversed_range(Len(xs))[th[t].k] + 1]))
    /\ th' = [th EXCEPT ![t].k = IF th[t].k = Len(xs) THEN 1 ELSE @ + 1,
                        ![t].pc = IF th[t].k = Len(xs) THEN next ELSE @]
    /\ Idle

\* lines 17-18: builder.PrependUOffsetTRelative(str_offsets[i])
NamesPrepend(t) ==
    /\ At(t, "encode", "L18")
    /\ PrependPass(t, th[t].str_offsets, "L19")

\* line 19: namesOffset = builder.EndVector(len(str_offsets))
NamesEndVector(t) ==
    /\ At(t, "encode", "L19")
    /\ LET b == EndVector(Builder(t), Len(th[t].str_offsets))
       IN /\ SetBuilder(t, b)
          /\ th' = [th EXCEPT ![t].namesOffset = LastOffset(b),
                              ![t].namesOffsetBound = TRUE,
                              ![t].pc = "L20"]
    /\ Idle

\* line 20: TensorStartShapeVector(builder, len(arr.shape))
ShapeStartVector(t) ==
    /\ At(t, "encode", "L20")
    /\ SetBuilder(t, StartVector(Builder(t)))
    /\ th' = [th EXCEPT ![t].k = 1,
                        ![t].pc = IF Len(th[t].arr.shape) > 0 THEN "L22" ELSE "L23"]
    /\ Idle

\* lines 21-22: builder.PrependInt32(arr.shape[i])
ShapePrepend(t) ==
    /\ At(t, "encode", "L22")
    /\ PrependPass(t, th[t].arr.shape, "L23")

\* line 23: sOffset = builder.EndVector(len(arr.shape))
ShapeEndVector(t) ==
    /\ At(t, "encode", "L23")
    /\ LET b == EndVector(Builder(t), Len(th[t].arr.shape))
       IN /\ SetBuilder(t, b)
          /\ th' = [th EXCEPT ![t].sOffset = LastOffset(b), ![t].pc = "L24"]
    /\ Idle

\* line 24: arr = arr.flatten(); line 25: TensorStartValuesVector(builder, len(arr))
ValuesStartVector(t) ==
    /\ At(t, "encode", "L24")
    /\ SetBuilder(t, StartVector(Builder(t)))
    /\ th' = [th EXCEPT ![t].arr = NdArray(<<Len(ravel(th[t].arr))>>, ravel(th[t].arr)),
                        ![t].k = 1,
                        ![t].pc = IF Len(ravel(th[t].arr)) > 0 THEN "L27" ELSE "L28"]
    /\ Idle

\* lines 26-27: builder.PrependFloat64(arr[i])
ValuesPrepend(t) ==
    /\ At(t, "encode", "L27")
    /\ PrependPass(t, th[t].arr.values, "L28")

\* line 28: vOffset = builder.EndVector(len(arr))
ValuesEndVector(t) ==
    /\ At(t, "encode", "L28")
    /\ LET b == EndVector(Builder(t), Len(th[t].arr.values))
       IN /\ SetBuilder(t, b)
          /\ th' = [th EXCEPT ![t].vOffset = LastOffset(b), ![t].pc = "L29"]
    /\ Idle

\* lines 29-32: the Tensor table
TensorEnd(t) ==
    /\ At(t, "encode", "L29")
    /\ LET b == EndTable(Builder(t), TensorTable(th[t].sOffset, th[t].vOffset))
       IN /\ SetBuilder(t, b)
          /\ th' = [th EXCEPT ![t].tensor = LastOffset(b), ![t].pc = "L34"]
    /\ Idle

\* lines 34-37: the DefaultData table. Line 36 reads namesOffset, which only
\* line 19 assigns: an UnboundLocalError when the names branch was not taken.
DefaultDataEnd(t) ==
    /\ At(t, "encode", "L34")
    /\ IF th[t].namesOffsetBound
       THEN LET b == EndTable(Builder(t), DefaultDataTable(th[t].tensor, th[t].namesOffset))
            IN /\ SetBuilder(t, b)
               /\ th' = [th EXCEPT ![t].defData = LastOffset(b), ![t].pc = "L39"]
       ELSE /\ th' = [th EXCEPT ![t].ret = Err("UnboundLocalError"), ![t].pc = "raised"]
            /\ UNCHANGED heap
    /\ Idle

\* lines 39-42: the Status table
StatusEnd(t) ==
    /\ At(t, "encode", "L39")
    /\ LET b == EndTable(Builder(t), StatusTable(200, "SUCCESS"))
       IN /\ SetBuilder(t, b)
          /\ th' = [th EXCEPT ![t].status = LastOffset(b), ![t].pc = "L44"]
    /\ Idle

\* lines 44-50: the SeldonMessage table
SeldonMessageEnd(t) ==
    /\ At(t, "encode", "L44")
    /\ LET b == EndTable(Builder(t),
                         SeldonMessageTable("V1", th[t].status, "DefaultData", th[t].defData))
       IN /\ SetBuilder(t, b)
          /\ th' = [th EXCEPT ![t].seldonMessage = LastOffset(b), ![t].pc = "L52"]
    /\ Idle

\* lines 52-56: the SeldonRPC table
SeldonRPCEnd(t) ==
    /\ At(t, "encode", "L52")
    /\ LET b == EndTable(Builder(t),
                         SeldonRPCTable("PREDICT", "SeldonMessage", th[t].seldonMessage))
       IN /\ SetBuilder(t, b)
          /\ th' = [th EXCEPT ![t].seldonRPC = LastOffset(b), ![t].pc = "L58"]
    /\ Idle

\* lines 58-59: builder.FinishSizePrefixed(seldonRPC); return builder.Output()
FinishAndOutput(t) ==
    /\ At(t, "encode", "L58")
    /\ LET b == FinishSizePrefixed(Builder(t), th[t].seldonRPC)
       IN /\ SetBuilder(t, b)
          /\ th' = [th EXCEPT ![t].ret = Ok(Output(b)), ![t].pc = "returned"]
    /\ Idle

\* SeldonRPCToNumpyArray applied to the buffer NumpyArrayToSeldonRPC returned
DecodeOutput(t) ==
    /\ At(t, "encode", "returned")
    /\ \E o \in SeldonRPCToNumpyArray(th[t].ret.val) :
          th' = [th EXCEPT ![t].dec = o, ![t].pc = "decoded"]
    /\ UNCHANGED heap
    /\ Idle

\* lines 57-58: if lv is None: lv = ListValue()
ListValueNew(t) ==
    /\ At(t, "listvalue", "L57")
    /\ heap' = Append(heap, [kind |-> "ListValue", value |-> EmptyListValue])
    /\ th' = [th EXCEPT ![t].ref = Alloc(heap), ![t].k = 1, ![t].pc = "L59"]
    /\ Idle

\* lines 59-60: a rank-1 array extends lv; line 62 starts iterating any other
\* array, a TypeError when it is 0-d
ListValueBranch(t) ==
    /\ At(t, "listvalue", "L59")
    /\ LET a == th[t].arr
       IN IF Len(a.shape) = 1
          THEN /\ heap' = [heap EXCEPT ![th[t].ref].value =
                             List(@.items \o [i \in 1..Len(a.values) |-> Num(a.values[i])])]
               /\ th' = [th EXCEPT ![t].pc = "L65"]
          ELSE /\ UNCHANGED heap
               /\ th' = IF Len(a.shape) = 0
                        THEN [th EXCEPT ![t].ret = Err("TypeError"), ![t].pc = "raised"]
                        ELSE [th EXCEPT ![t].pc = IF a.shape[1] > 0 THEN "L62" ELSE "L65"]
    /\ Idle

\* lines 62-64: sub_lv = lv.add_list(); array_to_list_value(sub_array, sub_lv)
ListValueAddList(t) ==
    /\ At(t, "listvalue", "L62")
    /\ LET a == th[t].arr
           sub == array_to_list_value(SubArray(a, th[t].k - 1))
       IN IF sub.state = "raised"
          THEN /\ th' = [th EXCEPT ![t].ret = sub, ![t].pc = "raised"]
               /\ UNCHANGED heap
          ELSE /\ heap' = [heap EXCEPT ![th[t].ref].value = List(Append(@.items, sub.val))]
               /\ th' = [th EXCEPT ![t].k = @ + 1,
                                   ![t].pc = IF th[t].k = a.shape[1] THEN "L65" ELSE @]
    /\ Idle

\* line 65: return lv
ListValueReturn(t) ==
    /\ At(t, "listvalue", "L65")
    /\ th' = [th EXCEPT ![t].ret = Ok(heap[th[t].ref].value), ![t].pc = "returned"]
    /\ UNCHANGED heap
    /\ Idle

NoOtherCall ==
    /\ req = PyNone
    /\ verdict = NotCalled
    /\ CodecIdle
    /\ MainIdle

\* One call of the binary encoder, followed by the decoder on its output
InitFbs ==
    /\ NoOtherCall
    /\ heap = <<>>
    /\ \E a \in Arrays, n \in NameSeqs : th = <<EncodeCall(a, n)>>

NextFbs ==
    \/ \E t \in DOMAIN th : BuilderNew(t)
    \/ \E t \in DOMAIN th : NamesCreateString(t)
    \/ \E t \in DOMAIN th : NamesStartVector(t)
    \/ \E t \in DOMAIN th : NamesPrepend(t)
    \/ \E t \in DOMAIN th : NamesEndVector(t)
    \/ \E t \in DOMAIN th : ShapeStartVector(t)
    \/ \E t \in DOMAIN th : ShapePrepend(t)
    \/ \E t \in DOMAIN th : ShapeEndVector(t)
    \/ \E t \in DOMAIN th : ValuesStartVector(t)
    \/ \E t \in DOMAIN th : ValuesPrepend(t)
    \/ \E t \in DOMAIN th : ValuesEndVector(t)
    \/ \E t \in DOMAIN th : TensorEnd(t)
    \/ \E t \in DOMAIN th : DefaultDataEnd(t)
    \/ \E t \in DOMAIN th : StatusEnd(t)
    \/ \E t \in DOMAIN th : SeldonMessageEnd(t)
    \/ \E t \in DOMAIN th : SeldonRPCEnd(t)
    \/ \E t \in DOMAIN th : FinishAndOutput(t)
    \/ \E t \in DOMAIN th : DecodeOutput(t)

SpecFbs == InitFbs /\ [][NextFbs]_vars

\* Two calls running interleaved in any order
ConcArrays ==
    {NdArray(<<>>, <<1>>), NdArray(<<2>>, <<1, 2>>), NdArray(<<2, 1>>, <<2, 1>>)}
ConcNames == {<<>>, <<"a">>, <<"b", "a">>}
ConcCalls ==
    {EncodeCall(a, n) : a \in ConcArrays, n \in ConcNames}
    \cup {ListValueCall(a) : a \in ConcArrays}

InitConc ==
    /\ NoOtherCall
    /\ heap = <<>>
    /\ \E c1 \in ConcCalls, c2 \in ConcCalls : th = <<c1, c2>>

NextConc ==
    \/ \E t \in DOMAIN th : BuilderNew(t)
    \/ \E t \in DOMAIN th : NamesCreateString(t)
    \/ \E t \in DOMAIN th : NamesStartVector(t)
    \/ \E t \in DOMAIN th : NamesPrepend(t)
    \/ \E t \in DOMAIN th : NamesEndVector(t)
    \/ \E t \in DOMAIN th : ShapeStartVector(t)
    \/ \E t \in DOMAIN th : ShapePrepend(t)
    \/ \E t \in DOMAIN th : ShapeEndVector(t)
    \/ \E t \in DOMAIN th : ValuesStartVector(t)
    \/ \E t \in DOMAIN th : ValuesPrepend(t)
    \/ \E t \in DOMAIN th : ValuesEndVector(t)
    \/ \E t \in DOMAIN th : TensorEnd(t)
    \/ \E t \in DOMAIN th : DefaultDataEnd(t)
    \/ \E t \in DOMAIN th : StatusEnd(t)
    \/ \E t \in DOMAIN th : SeldonMessageEnd(t)
    \/ \E t \in DOMAIN th : SeldonRPCEnd(t)
    \/ \E t \in DOMAIN th : FinishAndOutput(t)
    \/ \E t \in DOMAIN th : DecodeOutput(t)
    \/ \E t \in DOMAIN th : ListValueNew(t)
    \/ \E t \in DOMAIN th : ListValueBranch(t)
    \/ \E t \in DOMAIN th : ListValueAddList(t)
    \/ \E t \in DOMAIN th : ListValueReturn(t)

SpecConc == InitConc /\ [][NextConc]_vars

\* ------------------------------------------------------------------------
\* C1
\* ------------------------------------------------------------------------
HasKey(d, key) == key \in DOMAIN d.items
HasValue(d, key) == HasKey(d, key) /\ d.items[key] # PyNone

\* C1 (as claimed): the validator checks in a fixed order and stops at the
\* first failure: a non-dict request raises 'must be a dictionary'; else an
\* absent 'data' raises 'must contain Default Data' and a present 'data' that
\* is not a dict raises 'Data must be a dictionary'; else data with neither an
\* 'ndarray' nor a 'tensor' value raises 'no ndarray or tensor'; every other
\* request returns without raising.
C1_AsClaimed ==
    verdict # NotCalled =>
        verdict =
            IF req.type # "dict" THEN Raised(MsgNotDict)
            ELSE IF ~HasKey(req, "data") THEN Raised(MsgNoData)
            ELSE IF req.items["data"].type # "dict" THEN Raised(MsgDataNotDict)
            ELSE IF ~HasValue(req.items["data"], "ndarray")
                    /\ ~HasValue(req.items["data"], "tensor")
                 THEN Raised(MsgNoVariant)
                 ELSE Returned

\* C1 (amended): as claimed, except that a 'data' key present with the value
\* None (JSON null) is treated like an absent 'data': it raises 'must contain
\* Default Data', and only a present, non-None, non-dict 'data' raises 'Data
\* must be a dictionary'.
C1_ValidatorOrder ==
    verdict # NotCalled =>
        verdict =
            IF req.type # "dict" THEN Raised(MsgNotDict)
            ELSE IF ~HasValue(req, "data") THEN Raised(MsgNoData)
            ELSE IF req.items["data"].type # "dict" THEN Raised(MsgDataNotDict)
            ELSE IF ~HasValue(req.items["data"], "ndarray")
                    /\ ~HasValue(req.items["data"], "tensor")
                 THEN Raised(MsgNoVariant)
                 ELSE Returned

C1_Witness ==
    /\ req.type = "dict"
    /\ HasKey(req, "data")
    /\ req.items["data"] = PyNone
    /\ verdict = Raised(MsgNoData)

\* ------------------------------------------------------------------------
\* C2
\* ------------------------------------------------------------------------
HasTensor(d) == Get(d, "tensor") # None
HasNdarray(d) == Get(d, "ndarray") # None

FromArrayCalled == pc \in {"reparse", "roundtrip", "failed"}
FromArrayReturned == pc \in {"reparse", "roundtrip"}

\* The variant rule for a payload that fromArray returned: tensor for a
\* tensor input, ndarray for an ndarray input and for an input with neither
\* (an original datadef with a tensor is a tensor input, whatever else it holds)
VariantFollowsInput ==
    /\ proto = "REST" /\ HasTensor(orig)
          => DOMAIN wire = {"names", "tensor"}
    /\ proto = "REST" /\ ~HasTensor(orig)
          => DOMAIN wire = {"names", "ndarray"}
    /\ proto = "GRPC" /\ orig = "tensor"
          => wire.which = "tensor" /\ wire.ndarray = EmptyListValue
    /\ proto = "GRPC" /\ orig # "tensor"
          => wire.which = "ndarray" /\ wire.tensor = EmptyTensor

\* C2 (as claimed): in both codecs fromArray yields a payload, and the
\* payload carries only 'tensor' for a Tensor input or hint, only 'ndarray'
\* for an NDArray input or hint, and 'ndarray' for an input with neither.
C2_AsClaimed ==
    FromArrayCalled => FromArrayReturned /\ VariantFollowsInput

\* C2 (amended): whenever fromArray returns a payload, the payload carries
\* only 'tensor' for a Tensor input or hint, only 'ndarray' for an NDArray
\* input or hint, and 'ndarray' for an input with neither; the only call that
\* returns no payload is array_to_grpc_datadef of a rank-0 array with a hint
\* other than "tensor", which raises TypeError.
C2_VariantFollowsInput ==
    /\ FromArrayReturned => VariantFollowsInput
    /\ pc = "failed" =>
          /\ proto = "GRPC" /\ orig # "tensor" /\ Len(arr.shape) = 0
          /\ out = Err("TypeError")
    /\ FromArrayCalled /\ proto = "GRPC" /\ orig # "tensor" /\ Len(arr.shape) = 0
          => pc = "failed"

C2_Witness ==
    /\ pc = "reparse" /\ proto = "REST"
    /\ ~HasTensor(orig) /\ ~HasNdarray(orig)
    /\ arr.shape = <<2, 2>>
    /\ DOMAIN wire = {"names", "ndarray"}

\* ------------------------------------------------------------------------
\* C4
\* ------------------------------------------------------------------------
\* C4: decoding a buffer whose protocol-version field is not V1 raises the
\* 'does not have correct protocol' error, whatever its data kind and payload
\* are, and returns no array and no names.
C4_ProtocolGuard ==
    pc = "done" /\ proto = "FBS" /\ wire.objs[wire.root].protocol # "V1"
        => out = Err(MsgBadProtocol)

C4_Witness ==
    /\ pc = "done" /\ proto = "FBS"
    /\ wire.objs[wire.root].protocol = "V2"
    /\ wire.objs[wire.root].dataType = "NONE"
    /\ out = Err(MsgBadProtocol)

\* ------------------------------------------------------------------------
\* C5
\* ------------------------------------------------------------------------
\* The tensor a received payload carries, when the decoder reaches its reshape
TensorReached ==
    CASE proto = "REST" -> HasTensor(wire)
      [] proto = "GRPC" -> wire.which = "tensor"
      [] OTHER -> /\ wire.objs[wire.root].protocol = "V1"
                  /\ wire.objs[wire.root].dataType = "DefaultData"
                  /\ wire.objs[wire.root].data # 0
                  /\ wire.objs[wire.objs[wire.root].data].tensor # 0

WireTensor ==
    CASE proto = "REST" -> [shape |-> wire["tensor"].shape, values |-> wire["tensor"].values]
      [] proto = "GRPC" -> wire.tensor
      [] OTHER -> LET t == wire.objs[wire.objs[wire.objs[wire.root].data].tensor]
                  IN [shape |-> wire.objs[t.shape].elems, values |-> wire.objs[t.values].elems]

\* C5: in every Tensor decode path, a (shape, values) pair with
\* product(shape) # len(values) makes the reshape fail with an error: no
\* array is returned, with values truncated, padded or under an inferred shape.
C5_ShapeInvariant ==
    pc = "done" /\ TensorReached
        /\ Prod(WireTensor.shape) # Len(WireTensor.values)
        => out.state = "raised"

\* ------------------------------------------------------------------------
\* C6
\* ------------------------------------------------------------------------
IsFlatList(n) == n.kind = "list" /\ \A i \in 1..Len(n.items) : n.items[i].kind = "num"

Max(S) == CHOOSE x \in S : \A y \in S : y <= x

\* Nesting depth of a list value: 1 for a list of numbers (or an empty list)
RECURSIVE Depth(_)
Depth(n) ==
    IF IsFlatList(n) THEN 1
    ELSE 1 + Max({0} \cup {Depth(n.items[i]) :
                              i \in {j \in 1..Len(n.items) : n.items[j].kind = "list"}})

\* One entry per element along each axis, numbers only at the last axis
RECURSIVE EntriesPerAxis(_, _)
EntriesPerAxis(n, shape) ==
    /\ n.kind = "list"
    /\ Len(n.items) = shape[1]
    /\ IF Len(shape) = 1 THEN IsFlatList(n)
       ELSE \A i \in 1..Len(n.items) : EntriesPerAxis(n.items[i], Tail(shape))

\* The innermost runs, concatenated in order
RECURSIVE Scalars(_)
Scalars(n) ==
    IF n.kind = "num" THEN <<n.v>>
    ELSE Concat([i \in 1..Len(n.items) |-> Scalars(n.items[i])])

ListValueCalled == FromArrayCalled /\ proto = "GRPC" /\ orig # "tensor"

\* C6 (as claimed): for every array, array_to_list_value terminates and
\* returns a nested list whose nesting depth equals the array's rank, with one
\* entry per element along each axis, whose innermost lists concatenated in
\* order are the array's row-major values.
C6_AsClaimed ==
    ListValueCalled =>
        /\ FromArrayReturned
        /\ Depth(wire.ndarray) = Len(arr.shape)
        /\ EntriesPerAxis(wire.ndarray, arr.shape)
        /\ Scalars(wire.ndarray) = arr.values

LeadingAxesNonEmpty(shape) == \A i \in 1..(Len(shape) - 1) : shape[i] > 0

\* C6 (amended): for every array of rank >= 1, array_to_list_value
\* terminates and returns a nested list with one entry per element along each
\* axis, whose innermost lists concatenated in order are the array's
\* row-major values, and whose nesting depth equals the array's rank when no
\* axis before the last has length 0 (an empty leading axis leaves an empty
\* list, of depth 1); a rank-0 array is not special-cased and raises TypeError.
C6_ListValueDepth ==
    ListValueCalled =>
        IF Len(arr.shape) = 0
        THEN pc = "failed" /\ out = Err("TypeError")
        ELSE /\ FromArrayReturned
             /\ EntriesPerAxis(wire.ndarray, arr.shape)
             /\ Scalars(wire.ndarray) = arr.values
             /\ LeadingAxesNonEmpty(arr.shape) => Depth(wire.ndarray) = Len(arr.shape)

C6_Witness ==
    /\ pc = "reparse" /\ proto = "GRPC" /\ orig = "ndarray"
    /\ arr.shape = <<1, 2, 2>>
    /\ Depth(wire.ndarray) = 3
    /\ Scalars(wire.ndarray) = arr.values

\* ------------------------------------------------------------------------
\* C8
\* ------------------------------------------------------------------------
\* C8: for every array a and any names, rest_datadef_to_array applied to
\* array_to_rest_datadef(a, names, original), with original carrying the
\* Tensor variant, returns an array with a's shape and a's values in the
\* same row-major order.
C8_RestTensorRoundTrip ==
    pc = "roundtrip" /\ proto = "REST" /\ HasTensor(orig) => out = Ok(arr)

C8_Witness ==
    /\ pc = "roundtrip" /\ proto = "REST" /\ HasTensor(orig)
    /\ arr.shape = <<2, 2>>
    /\ arr.values = <<1, 2, 2, 1>>
    /\ names = <<"a", "b">>
    /\ out = Ok(arr)

\* ------------------------------------------------------------------------
\* C3
\* ------------------------------------------------------------------------
Finished(t) == th[t].pc \in {"returned", "decoded", "raised"}

\* C3: for every array and every non-empty names sequence, the decoder
\* applied to the buffer the encoder returned gives back an array with the
\* same shape and the same values in the same order, and the same names.
C3_BinaryRoundTrip ==
    \A t \in DOMAIN th :
        th[t].job = "encode" /\ th[t].pc = "decoded" /\ Len(th[t].names) > 0
            => th[t].dec = Ok([array |-> th[t].arg, names |-> th[t].names])

\* ------------------------------------------------------------------------
\* C7
\* ------------------------------------------------------------------------
\* C7: with an empty names sequence the encoder writes no names vector,
\* completes every later step and returns a finished buffer, in which a
\* reader finds an empty names sequence.
C7_EmptyNamesAccepted ==
    \A t \in DOMAIN th :
        th[t].job = "encode" /\ Finished(t) /\ Len(th[t].names) = 0
            => /\ th[t].ret.state = "returned"
               /\ LET buf == th[t].ret.val
                      msg == buf.objs[buf.objs[buf.root].message]
                  IN VectorLength(buf, buf.objs[msg.data].names) = 0

\* ------------------------------------------------------------------------
\* C9
\* ------------------------------------------------------------------------
\* What NumpyArrayToSeldonRPC(a, n) does when nothing else runs
EncodeAlone(a, n) ==
    LET k == Len(n)
    IN IF k = 0 THEN Err("UnboundLocalError")
       ELSE Ok([objs |-> [i \in 1..k |-> [kind |-> "string", s |-> n[i]]] \o
                         << [kind |-> "vector", len |-> k, elems |-> Iota(k)],
                            [kind |-> "vector", len |-> Len(a.shape), elems |-> a.shape],
                            [kind |-> "vector", len |-> Len(a.values), elems |-> a.values],
                            TensorTable(k + 2, k + 3),
                            DefaultDataTable(k + 4, k + 1),
                            StatusTable(200, "SUCCESS"),
                            SeldonMessageTable("V1", k + 6, "DefaultData", k + 5),
                            SeldonRPCTable("PREDICT", "SeldonMessage", k + 7) >>,
                root |-> k + 8,
                sizePrefixed |-> TRUE])

CallAlone(c) ==
    IF c.job = "encode" THEN EncodeAlone(c.arg, c.names) ELSE array_to_list_value(c.arg)

\* No two calls hold the same object
OwnObject ==
    \A t1, t2 \in DOMAIN th :
        t1 # t2 /\ th[t1].ref # 0 /\ th[t2].ref # 0 => th[t1].ref # th[t2].ref

\* A finished call has the result it has when it runs alone
ResultAsAlone ==
    \A t \in DOMAIN th :
        /\ Finished(t) => th[t].ret = CallAlone(th[t])
        /\ th[t].pc = "decoded" => th[t].dec \in SeldonRPCToNumpyArray(CallAlone(th[t]).val)

\* A step of one call leaves the objects of the other calls as they were
NoInterference ==
    \A t \in DOMAIN th :
        th'[t] = th[t] /\ th[t].ref # 0 => heap'[th[t].ref] = heap[th[t].ref]

\* C9: when several codec calls run interleaved in any order, each call
\* allocates its own buffer or result object, no call writes (or finds
\* changed) the object of another call, and each call's result equals the
\* result of running that call alone.
C9_CallsIndependent ==
    /\ [](OwnObject /\ ResultAsAlone)
    /\ [][NoInterference]_vars

C9_Witness ==
    /\ th[1].job = "encode" /\ th[2].job = "encode"
    /\ th[1].pc = "L27" /\ th[2].pc = "decoded"
    /\ th[1].ref = 2 /\ th[2].ref = 1
    /\ th[1].names = <<"b", "a">> /\ th[2].names = <<"a">>

\* ------------------------------------------------------------------------
\* C10
\* ------------------------------------------------------------------------
\* After j appends of a loop over xs the vector under construction holds the
\* last j elements of xs: they went in from the last index down
LastAppended(t, xs, j) ==
    /\ j <= Len(xs)
    /\ Builder(t).vec = SubSeq(xs, Len(xs) - j + 1, Len(xs))

\* The finished vector at off has len(xs) elements and reads as xs
ReadsAs(t, off, xs) ==
    /\ VectorLength(Builder(t), off) = Len(xs)
    /\ \A i \in 0..(Len(xs) - 1) : VectorElem(Builder(t), off, i) = xs[i + 1]

NameStringsReadAs(t, off, xs) ==
    /\ VectorLength(Builder(t), off) = Len(xs)
    /\ \A i \in 0..(Len(xs) - 1) :
          Builder(t).objs[VectorElem(Builder(t), off, i)].s = xs[i + 1]

\* C10: each of the three vectors (names offsets, shape, flattened values)
\* is appended from the last logical index down to the first, with exactly
\* len(vector) appends between its start and its end, so that the finished
\* vector read at index i yields the i-th input element.
C10_ReverseAppend ==
    \A t \in DOMAIN th :
        th[t].job = "encode" =>
            /\ th[t].pc = "L18" => LastAppended(t, th[t].str_offsets, th[t].k - 1)
            /\ th[t].pc = "L19" => LastAppended(t, th[t].str_offsets, Len(th[t].names))
            /\ th[t].pc = "L22" => LastAppended(t, th[t].arg.shape, th[t].k - 1)
            /\ th[t].pc = "L23" => LastAppended(t, th[t].arg.shape, Len(th[t].arg.shape))
            /\ th[t].pc = "L27" => LastAppended(t, th[t].arg.values, th[t].k - 1)
            /\ th[t].pc = "L28" => LastAppended(t, th[t].arg.values, Len(th[t].arg.values))
            /\ th[t].namesOffsetBound => NameStringsReadAs(t, th[t].namesOffset, th[t].names)
            /\ th[t].sOffset # 0 => ReadsAs(t, th[t].sOffset, th[t].arg.shape)
            /\ th[t].vOffset # 0 => ReadsAs(t, th[t].vOffset, th[t].arg.values)

C10_Witness ==
    /\ th[1].pc = "returned"
    /\ th[1].names = <<"a", "b">>
    /\ th[1].arg = NdArray(<<2, 2>>, <<1, 2, 2, 1>>)
    /\ NameStringsReadAs(1, th[1].namesOffset, <<"a", "b">>)
    /\ ReadsAs(1, th[1].sOffset, <<2, 2>>)
    /\ ReadsAs(1, th[1].vOffset, <<1, 2, 2, 1>>)

\* ------------------------------------------------------------------------
\* C11
\* ------------------------------------------------------------------------
BothVariants(d) == HasTensor(d) /\ HasNdarray(d)

\* The array is the tensor's: its values in their order, and its shape entry
\* by entry wherever the tensor gives the entry
BuiltFromTensor(a, t) ==
    /\ a.values = t.values
    /\ Len(a.shape) = Len(t.shape)
    /\ \A i \in 1..Len(t.shape) : t.shape[i] >= 0 => a.shape[i] = t.shape[i]

\* C11: when a REST datadef carries both a non-null 'tensor' and a non-null
\* 'ndarray', rest_datadef_to_array does with it exactly what it does with
\* the tensor alone (the array built from tensor.values and tensor.shape, or
\* the reshape error), whatever 'ndarray' holds; and array_to_rest_datadef
\* with such a datadef as original_datadef emits 'names' and 'tensor' only.
C11_TensorPrecedence ==
    /\ pc = "done" /\ proto = "REST" /\ BothVariants(wire) =>
          /\ out = reshape(wire.tensor.values, wire.tensor.shape)
          /\ out.state = "returned" => BuiltFromTensor(out.val, wire.tensor)
    /\ pc \in {"reparse", "roundtrip"} /\ proto = "REST" /\ BothVariants(orig) =>
          /\ DOMAIN wire = {"names", "tensor"}
          /\ wire.tensor = RestTensor(arr)

C11_Witness ==
    /\ pc = "done" /\ proto = "REST" /\ BothVariants(wire)
    /\ wire.tensor.shape = <<2, 2>>
    /\ wire.tensor.values = <<1, 2, 3, 4>>
    /\ wire.ndarray = SampleNdarray
    /\ out = Ok(NdArray(<<2, 2>>, <<1, 2, 3, 4>>))

(***************************************************************************)
(* microservice.py: main and startServers. main runs top to bottom; the    *)
(* two processes startServers forks run their targets beside it.           *)
(***************************************************************************)
\* choices of --service-type and of api_type
ServiceTypes == {"MODEL", "ROUTER", "TRANSFORMER", "COMBINER", "OUTLIER_DETECTOR"}
ApiTypes == {"REST", "GRPC", "FBS"}

\* Command lines: --service-type may be left out; "OTHER" is any word that is
\* not among the choices; --persistence left out (0) or given bare (1)
Absent == "absent"
CommandLines ==
    [service_type : ServiceTypes \cup {Absent, "OTHER"},
     api_type : ApiTypes \cup {"OTHER"},
     persistence : {0, 1}]

\* The user's class: whether its objects have a callable custom_service
UserClasses == [custom_service : BOOLEAN]

\* parser.parse_args(): exits on a word outside the choices, fills the default
Accepted(av) ==
    /\ av.service_type \in ServiceTypes \cup {Absent}
    /\ av.api_type \in ApiTypes

parse_args(av) ==
    [service_type |-> IF av.service_type = Absent THEN "MODEL" ELSE av.service_type,
     api_type |-> av.api_type,
     persistence |-> av.persistence]

\* lines 104-111: the module the if/elif chain imports as seldon_microservice;
\* a service type no branch tests leaves the name as it was
ImportModule(service_type, before) ==
    IF service_type = "MODEL" THEN "model_microservice"
    ELSE IF service_type = "ROUTER" THEN "router_microservice"
    ELSE IF service_type = "TRANSFORMER" THEN "transformer_microservice"
    ELSE IF service_type = "OUTLIER_DETECTOR" THEN "outlier_detector_microservice"
    ELSE before

\* lines 115-142: the server function defined for the api type
ServerFunc(api_type) ==
    IF api_type = "REST" THEN "rest_prediction_server"
    ELSE IF api_type = "GRPC" THEN "grpc_prediction_server"
    ELSE IF api_type = "FBS" THEN "fbs_prediction_server"
    ELSE "None"

InitMain ==
    /\ req = PyNone
    /\ verdict = NotCalled
    /\ CodecIdle
    /\ FbsIdle
    /\ argv \in CommandLines
    /\ user_class \in UserClasses
    /\ mainpc = "L82"
    /\ args = NoArgs
    /\ user_object = NoUserObject
    /\ seldon_microservice = Unbound
    /\ server1_func = Unbound
    /\ server2_func = Unbound
    /\ p1 = NotStarted
    /\ p2 = NotStarted

NotMain == UNCHANGED <<valVars, codecVars, fbsVars, argv, user_class>>

\* lines 74-82
ParseArgs ==
    /\ mainpc = "L82"
    /\ IF Accepted(argv)
       THEN args' = parse_args(argv) /\ mainpc' = "L84"
       ELSE UNCHANGED args /\ mainpc' = "exit"
    /\ UNCHANGED <<user_object, seldon_microservice, server1_func, server2_func, p1, p2>>
    /\ NotMain

\* lines 84-102: the user object, restored or constructed
LoadUserObject ==
    /\ mainpc = "L84"
    /\ user_object' = [restored |-> args.persistence # 0,
                       custom_service |-> user_class.custom_service]
    /\ mainpc' = "L104"
    /\ UNCHANGED <<args, seldon_microservice, server1_func, server2_func, p1, p2>>
    /\ NotMain

\* lines 104-113
BindModule ==
    /\ mainpc = "L104"
    /\ seldon_microservice' = ImportModule(args.service_type, seldon_microservice)
    /\ mainpc' = "L115"
    /\ UNCHANGED <<args, user_object, server1_func, server2_func, p1, p2>>
    /\ NotMain

\* lines 115-142
SelectServer1 ==
    /\ mainpc = "L115"
    /\ server1_func' = ServerFunc(args.api_type)
    /\ mainpc' = "L144"
    /\ UNCHANGED <<args, user_object, seldon_microservice, server2_func, p1, p2>>
    /\ NotMain

\* lines 144-147
SelectServer2 ==
    /\ mainpc = "L144"
    /\ server2_func' = IF user_object.custom_service THEN "custom_service" ELSE "None"
    /\ mainpc' = "L24"
    /\ UNCHANGED <<args, user_object, seldon_microservice, server1_func, p1, p2>>
    /\ NotMain

\* lines 149, 24-26: startServers(server1_func, server2_func); p1.start()
StartP1 ==
    /\ mainpc = "L24"
    /\ p1' = "started"
    /\ mainpc' = "L28"
    /\ UNCHANGED <<args, user_object, seldon_microservice, server1_func, server2_func, p2>>
    /\ NotMain

\* lines 28-30: p2.start()
StartP2 ==
    /\ mainpc = "L28"
    /\ p2' = "started"
    /\ mainpc' = "L32"
    /\ UNCHANGED <<args, user_object, seldon_microservice, server1_func, server2_func, p1>>
    /\ NotMain

\* Process p1 runs target1. Each server function (lines 116-119, 124-131,
\* 136-137) reads main's seldon_microservice first: a NameError ends the
\* process when the name is unbound, else the server runs and does not return.
\* No target: the process ends at once.
RunTarget1 ==
    /\ p1 = "started"
    /\ p1' = IF server1_func = "None" THEN "exited"
             ELSE IF seldon_microservice = Unbound THEN "NameError"
             ELSE "serving"
    /\ UNCHANGED <<mainpc, args, user_object, seldon_microservice, server1_func,
                   server2_func, p2>>
    /\ NotMain

\* Process p2 runs target2: the user's custom_service, or nothing
RunTarget2 ==
    /\ p2 = "started"
    /\ p2' = IF server2_func = "None" THEN "exited" ELSE "serving"
    /\ UNCHANGED <<mainpc, args, user_object, seldon_microservice, server1_func,
                   server2_func, p1>>
    /\ NotMain

\* The user's custom_service may return
Target2Returns ==
    /\ p2 = "serving"
    /\ p2' = "exited"
    /\ UNCHANGED <<mainpc, args, user_object, seldon_microservice, server1_func,
                   server2_func, p1>>
    /\ NotMain

\* line 32: p1.join() returns once p1 has ended
JoinP1 ==
    /\ mainpc = "L32"
    /\ p1 \in {"exited", "NameError"}
    /\ mainpc' = "L33"
    /\ UNCHANGED <<args, user_object, seldon_microservice, server1_func, server2_func, p1, p2>>
    /\ NotMain

\* line 33: p2.join() returns once p2 has ended
JoinP2 ==
    /\ mainpc = "L33"
    /\ p2 = "exited"
    /\ mainpc' = "returned"
    /\ UNCHANGED <<args, user_object, seldon_microservice, server1_func, server2_func, p1, p2>>
    /\ NotMain

NextMain ==
    \/ ParseArgs
    \/ LoadUserObject
    \/ BindModule
    \/ SelectServer1
    \/ SelectServer2
    \/ StartP1
    \/ StartP2
    \/ RunTarget1
    \/ RunTarget2
    \/ Target2Returns
    \/ JoinP1
    \/ JoinP2

SpecMain == InitMain /\ [][NextMain]_vars

\* ------------------------------------------------------------------------
\* C12
\* ------------------------------------------------------------------------
\* C12: for every accepted --service-type and api_type, once the selected
\* server function is running (process p1 is started), main has bound
\* seldon_microservice, and the server function never fails on the unbound
\* name.
C12_ModuleBoundBeforeUse ==
    p1 # NotStarted =>
        /\ seldon_microservice # Unbound
        /\ p1 # "NameError"

====
